---- MODULE Spec2Model ----
(***************************************************************************)
(* The e-commerce recommendation service: the relational / vector store    *)
(* (DatabaseService), the collaborative RecommendationEngine, the           *)
(* ContentBasedRecommender, the CustomerEmbeddingGenerator and the          *)
(* HybridRecommender, with the retrain and query handlers of main.py.       *)
(*                                                                         *)
(* Numbers.  Python floats are modelled in fixed point: vector components,  *)
(* distances, similarities and single-strategy scores are integers in       *)
(* units of 1/Scale; hybrid weights are integers in units of 1/WeightScale; *)
(* a hybrid score (score * weight) is in units of 1/(Scale*WeightScale).    *)
(* Square roots and quotients round down.                                   *)
(*                                                                         *)
(* SQL.  A query whose ORDER BY leaves ties (or that has no ORDER BY) may   *)
(* return tied rows in any order, and a LIMIT may cut anywhere inside a     *)
(* tie: such a query is a set of possible answers, and a caller takes any   *)
(* one of them.                                                             *)
(***************************************************************************)
EXTENDS Integers, Sequences, FiniteSets, TLC

\* ------------------------------------------------------------------ bounds
NumCustomers == 3
\* the customers who act where the whole service runs; the others are rows of the customers
\* table that only the neighbourhood runs bring to life
NumActiveCustomers == 2
NumProducts == 3
NumTerms == 3
\* the store's vector width (the source's 128), scaled down so that both
\* padding and truncation happen with NumProducts products and NumTerms terms
D == 2
MaxQty == 1
MaxPurchases == 3
MaxVersions == 1
MaxTopN == 2
\* distances run over 0 .. MaxDistanceSteps * DistanceStep
MaxDistanceSteps == 100

\* ------------------------------------------------------------------ units
Scale == 10 * 10 * 10
WeightScale == 10 * 10

Customers == 1..NumCustomers
ActiveCustomers == 1..NumActiveCustomers
Products == 1..NumProducts
Terms == 1..NumTerms
TopNs == 1..MaxTopN

\* Python's None, for a version id, a vector, a stored embedding, a loaded matrix
NoVersion == 0
NoVector == <<>>
NoEmbedding == [vec |-> <<>>, ver |-> 0]
NoMatrix == <<>>
\* product_features before load_data
NoFeatures == [loaded |-> FALSE, ids |-> {}]
\* a sub-recommender call that was not made
NotCalled == [called |-> FALSE, raised |-> FALSE, recs |-> <<>>, neighbour_query |-> FALSE]

\* ------------------------------------------------------- program constants
\* RecommendationEngine.get_recommendations(k_similar_customers=20)
k_similar_customers == 20
\* ContentBasedRecommender.get_recommendations: recommend_products_pgvector(top_n=20)
candidate_pool == 20
\* a threshold that lets every similarity through
no_min_similarity == 0 * Scale
\* ContentBasedRecommender.get_recommendations: min_similarity = 0.1
min_similarity == Scale \div 10
\* the 0.001 added to a neighbour's distance
epsilon == Scale \div 1000
\* HybridRecommender.set_weights: tolerance 0.01
weight_tolerance == WeightScale \div 100
\* main.py lifespan: cf_weight=0.6, content_weight=0.4
default_cf_weight == (6 * WeightScale) \div 10
default_content_weight == (4 * WeightScale) \div 10

\* ---------------------------------------------------------------- helpers
Abs(x) == IF x < 0 THEN -x ELSE x
Max(a, b) == IF a >= b THEN a ELSE b
Min(a, b) == IF a <= b THEN a ELSE b

RECURSIVE SumOver(_, _)
\* the sum of f[x] over the finite set S
SumOver(S, f) ==
  IF S = {} THEN 0
  ELSE LET x == CHOOSE y \in S : TRUE IN f[x] + SumOver(S \ {x}, f)

RECURSIVE ISqrtIn(_, _, _)
ISqrtIn(n, lo, hi) ==
  IF lo >= hi THEN lo
  ELSE LET mid == (lo + hi + 1) \div 2
       IN IF mid * mid <= n THEN ISqrtIn(n, mid, hi) ELSE ISqrtIn(n, lo, mid - 1)

\* floor of the square root of n (n < 2^30)
ISqrt(n) == ISqrtIn(n, 0, 32767)

RECURSIVE Perms(_)
\* every sequence listing each element of S once
Perms(S) ==
  IF S = {} THEN {<<>>}
  ELSE UNION {{<<x>> \o s : s \in Perms(S \ {x})} : x \in S}

\* the first n entries of s: s[:n]
Take(s, n) == SubSeq(s, 1, Min(n, Len(s)))

Range(s) == {s[i] : i \in 1..Len(s)}

\* the answers of SELECT ... ORDER BY key ASC LIMIT limit over the rows S
OrderByAsc(S, key, limit) ==
  {Take(s, limit) :
     s \in {t \in Perms(S) : \A i \in 1..(Len(t) - 1) : key[t[i]] <= key[t[i + 1]]}}

\* the answers of SELECT ... ORDER BY key DESC LIMIT limit over the rows S
OrderByDesc(S, key, limit) ==
  {Take(s, limit) :
     s \in {t \in Perms(S) : \A i \in 1..(Len(t) - 1) : key[t[i]] >= key[t[i + 1]]}}

\* ---------------------------------------------------------------- vectors
Dot(u, v) == SumOver(DOMAIN u, [i \in DOMAIN u |-> u[i] * v[i]])

\* L2 norm, in units of 1/Scale for components in units of 1/Scale
Norm(v) == ISqrt(Dot(v, v))

IsZero(v) == \A i \in DOMAIN v : v[i] = 0

\* the `<->` operator of pgvector: L2 distance
Distance(u, v) == ISqrt(SumOver(DOMAIN u, [i \in DOMAIN u |-> (u[i] - v[i]) * (u[i] - v[i])]))

\* np.hstack([v, zeros(target_dim - n)]) when n < target_dim, v[:target_dim] when n > target_dim
PadTruncate(v) == [i \in 1..D |-> IF i <= Len(v) THEN v[i] ELSE 0]

\* sklearn.preprocessing.normalize(norm='l2'): a row of norm 0 is left as it is
Normalize(v) ==
  LET n == Norm(v)
  IN IF n = 0 THEN v ELSE [i \in DOMAIN v |-> (v[i] * Scale) \div n]

\* ------------------------------------------------------------------ state
VARIABLES
  pgvector_enabled,      \* DatabaseService.pgvector_enabled
  catalog,               \* table products: the product ids
  purchases,             \* table purchases: per (customer, product), n rows of total quantity q
  model_versions,        \* table model_versions: ids 1..model_versions
  product_embeddings,    \* table product_embeddings: product -> NoEmbedding or [vec, ver]
  customer_embeddings,   \* table customer_embeddings: customer -> NoEmbedding or [vec, ver]
  user_item_matrix,      \* RecommendationEngine.user_item_matrix: NoMatrix or the loaded quantities
  cf_version,            \* RecommendationEngine.current_model_version_id
  product_features,      \* ContentBasedRecommender.product_features: NoFeatures or the loaded product ids
  content_version,       \* ContentBasedRecommender.current_model_version_id
  cf_weight,             \* HybridRecommender.cf_weight
  content_weight,        \* HybridRecommender.content_weight
  cache_service,         \* main.cache_service, the module-level name the handlers read
  cache_client,          \* CacheService.client of the service the lifespan built: connected or not
  cache,                 \* the Redis keys rec:strategy:customer:limit and their payloads
  last                   \* the last call and what it returned

store == <<pgvector_enabled, catalog, purchases, model_versions,
           product_embeddings, customer_embeddings>>
engines == <<user_item_matrix, cf_version, product_features, content_version>>
weights == <<cf_weight, content_weight>>
cache_vars == <<cache_service, cache_client, cache>>
vars == <<store, engines, weights, cache_vars, last>>

\* the values of main.cache_service
NoService == "None"
Service == "CacheService"

NoPurchase == [n |-> 0, q |-> 0]

\* what a call leaves in `last`
Call(op, customer, top_n, raised, result) ==
  [op |-> op, customer |-> customer, top_n |-> top_n, raised |-> raised,
   result |-> result, args |-> <<>>, version |-> 0,
   cf |-> NotCalled, content |-> NotCalled, fallback |-> NotCalled]

Init ==
  /\ pgvector_enabled \in BOOLEAN
  /\ catalog = {}
  /\ purchases = [c \in Customers |-> [p \in Products |-> NoPurchase]]
  /\ model_versions = 0
  /\ product_embeddings = [p \in Products |-> NoEmbedding]
  /\ customer_embeddings = [c \in Customers |-> NoEmbedding]
  /\ user_item_matrix = NoMatrix
  /\ cf_version = NoVersion
  /\ product_features = NoFeatures
  /\ content_version = NoVersion
  /\ cf_weight = default_cf_weight
  /\ content_weight = default_content_weight
  /\ cache_service = NoService
  /\ cache_client \in BOOLEAN
  /\ cache = {}
  /\ last = Call("init", 0, 0, FALSE, <<>>)

\* ------------------------------------------------------- the data grows
\* a row is added to products; product_id is a serial key
AddProduct(p) ==
  /\ p \notin catalog
  /\ \A r \in Products : r < p => r \in catalog
  /\ catalog' = catalog \cup {p}
  /\ last' = Call("data", 0, 0, FALSE, <<>>)
  /\ UNCHANGED <<pgvector_enabled, purchases, model_versions, product_embeddings,
                 customer_embeddings, engines, weights, cache_vars>>

TotalRows == SumOver(Customers \X Products,
                     [cp \in Customers \X Products |-> purchases[cp[1]][cp[2]].n])

\* a row (c, p, quantity) is added to purchases; purchases reference products
Purchase(c, p, quantity) ==
  /\ p \in catalog
  /\ TotalRows < MaxPurchases
  /\ purchases' = [purchases EXCEPT ![c][p] = [n |-> @.n + 1, q |-> @.q + quantity]]
  /\ last' = Call("data", 0, 0, FALSE, <<>>)
  /\ UNCHANGED <<pgvector_enabled, catalog, model_versions, product_embeddings,
                 customer_embeddings, engines, weights, cache_vars>>


\* ------------------------------------------------------ the relational store
\* SUM(quantity) ... GROUP BY customer_id, product_id
Quantity(c, p) == purchases[c][p].q

\* SELECT DISTINCT product_id FROM purchases WHERE customer_id = c
get_customer_purchased_product_ids(c) == {p \in Products : purchases[c][p].n > 0}

\* SELECT DISTINCT p.product_id ... FROM purchases p JOIN products pr ... WHERE p.customer_id = c
get_customer_purchases(c) == {p \in catalog : purchases[c][p].n > 0}

\* the customers the aggregation is run for, with none found
no_customers_with_purchases == {}

\* SELECT DISTINCT customer_id FROM purchases
get_all_customers_with_purchases == {c \in Customers : \E p \in Products : purchases[c][p].n > 0}

\* COUNT(*) ... GROUP BY product_id: the number of purchase rows of p
purchase_count(p) == SumOver(Customers, [c \in Customers |-> purchases[c][p].n])

\* the purchased products in any order, LIMIT limit
get_products_unranked(limit) ==
  {Take(s, limit) : s \in Perms({p \in Products : purchase_count(p) > 0})}

\* SELECT product_id, COUNT(*) AS purchase_count FROM purchases GROUP BY product_id
\* ORDER BY purchase_count DESC LIMIT limit
get_popular_products(limit) ==
  OrderByDesc({p \in Products : purchase_count(p) > 0},
              [p \in Products |-> purchase_count(p)], limit)

\* get_purchase_matrix: the rows (customer, product, quantity) with a purchase
get_purchase_matrix == [c \in Customers |-> [p \in Products |-> purchases[c][p].q]]

\* ---------------------------------------------------- the text of a product
\* the terms (unigrams and bigrams left after the stop words) of name + category + description
ProductTerms(p) ==
  CASE p = 1 -> {1, 2}
    [] p = 2 -> {1}
    [] p = 3 -> {3}
    [] OTHER -> {}

\* ascending sequence of a set of numbers
RECURSIVE SortedSeq(_)
SortedSeq(S) ==
  IF S = {} THEN <<>>
  ELSE LET m == CHOOSE x \in S : \A y \in S : x <= y IN <<m>> \o SortedSeq(S \ {m})

\* TfidfVectorizer(max_features=D): the corpus frequency of term t over the documents docs
TermFrequency(t, docs) == Cardinality({p \in docs : t \in ProductTerms(p)})

\* the vocabulary kept by max_features: the D most frequent terms, the earlier term on a tie
Vocabulary(docs) ==
  {t \in Terms :
     /\ TermFrequency(t, docs) > 0
     /\ Cardinality({u \in Terms :
                       \/ TermFrequency(u, docs) > TermFrequency(t, docs)
                       \/ TermFrequency(u, docs) = TermFrequency(t, docs) /\ u < t}) < D}

\* fit_transform: the row of product p, one column per kept term in term order; a term
\* of the product weighs 1 before the vectorizer's own L2 normalisation of the row
TfidfRow(p, docs) ==
  LET cols == SortedSeq(Vocabulary(docs))
  IN Normalize([i \in 1..Len(cols) |-> IF cols[i] \in ProductTerms(p) THEN Scale ELSE 0])

\* ------------------------------------------------------------ the embedders
Embedding(vec, ver) == [vec |-> vec, ver |-> ver]

\* a vectoriser whose output depends on how many versions exist
ProductVectorByRun(p, docs) ==
  LET marked == IF model_versions = 0 THEN 1 ELSE 2
  IN PadTruncate(IF p = marked THEN <<Scale>> ELSE <<0, Scale>>)

\* ContentBasedRecommender.compute_similarity: pad or truncate to D, normalise
ProductVector(p, docs) == Normalize(PadTruncate(TfidfRow(p, docs)))

\* the products (columns) and customers (rows) of a loaded user-item matrix
MatrixProducts(m) == {p \in Products : \E c \in Customers : m[c][p] > 0}
MatrixCustomers(m) == {c \in Customers : \E p \in Products : m[c][p] > 0}

\* RecommendationEngine.compute_similarity: the customer's row, padded or truncated to D, normalised
PurchaseRow(c, m) ==
  LET cols == SortedSeq(MatrixProducts(m))
  IN PadTruncate([i \in 1..Len(cols) |-> m[c][cols[i]] * Scale])

\* normalize(customer_vector): the purchase-pattern embedding of customer c
PurchaseVector(c, m) == Normalize(PurchaseRow(c, m))

\* the weighted mean of the stored vectors (pe) of the products customer c
\* purchased, or None (NoVector) when c has no purchase or none is stored
WeightedMean(c, pe, weight_by_quantity) ==
  LET product_ids == get_customer_purchased_product_ids(c)
      found == {p \in product_ids : pgvector_enabled /\ pe[p] # NoEmbedding}
      w == [p \in Products |-> IF weight_by_quantity THEN Quantity(c, p) ELSE 1]
      total == SumOver(found, w)
  IN IF product_ids = {} \/ found = {} THEN NoVector
     ELSE [i \in 1..D |->
             SumOver(found, [p \in Products |-> IF p \in found THEN pe[p].vec[i] * w[p] ELSE 0])
               \div total]

\* CustomerEmbeddingGenerator._generate_customer_embedding against the product
\* embeddings pe: None, or the normalised weighted mean
GenerateCustomerEmbedding(c, pe, weight_by_quantity) ==
  LET mean == WeightedMean(c, pe, weight_by_quantity)
  IN IF mean = NoVector THEN NoVector ELSE Normalize(mean)

\* batch_upsert_product_embeddings / batch_upsert_customer_embeddings: one transaction
BatchUpsert(table, ids, vec, ver) ==
  [x \in DOMAIN table |-> IF x \in ids THEN Embedding(vec[x], ver) ELSE table[x]]

\* ------------------------------------------------------------------ retrain
\* CacheService.invalidate_all_recommendations: what is left of the keys; a delete that
\* fails is passed over
invalidate_all_recommendations(fails) ==
  IF ~cache_client THEN {cache}
  ELSE IF fails THEN SUBSET cache
  ELSE {{}}

RetrainFaults == {"none", "version", "products", "customers", "generator"}

\* the load_data check left out: an empty purchase result is taken for data
PurchaseDataUnchecked(m) == FALSE

\* RecommendationEngine.load_data: "if not purchases", the purchase query returned no row
NoPurchaseData(m) == MatrixCustomers(m) = {}

\* POST /retrain, with a store error injected at one of its writes (fault)
Retrain(fault) ==
  LET m == get_purchase_matrix
      v == model_versions + 1
      pe1 == BatchUpsert(product_embeddings, catalog,
                         [p \in Products |-> ProductVector(p, catalog)], v)
      ce1 == BatchUpsert(customer_embeddings, MatrixCustomers(m),
                         [c \in Customers |-> PurchaseVector(c, m)], v)
      gen == [c \in Customers |-> GenerateCustomerEmbedding(c, pe1, TRUE)]
      written == {c \in get_all_customers_with_purchases : gen[c] # NoVector}
      ce2 == BatchUpsert(ce1, written, gen, v)
      Failed == last' = [Call("retrain", 0, 0, TRUE, <<>>) EXCEPT !.args = <<fault>>]
  IN
  /\ fault \in RetrainFaults
  /\ IF ~pgvector_enabled
     THEN \* HTTPException 503
          /\ fault = "none"
          /\ Failed
          /\ UNCHANGED <<store, engines>>
     ELSE IF NoPurchaseData(m)
     THEN \* cf_recommender.load_data: "No purchase data available"
          /\ fault = "none"
          /\ Failed
          /\ UNCHANGED <<store, engines>>
     ELSE IF catalog = {}
     THEN \* content_recommender.load_data: "No product data available"
          /\ fault = "none"
          /\ Failed
          /\ user_item_matrix' = m
          /\ UNCHANGED <<store, cf_version, product_features, content_version>>
     ELSE IF fault = "version"
     THEN \* log_new_model_version fails and rolls back
          /\ Failed
          /\ user_item_matrix' = m
          /\ product_features' = [loaded |-> TRUE, ids |-> catalog]
          /\ UNCHANGED <<store, cf_version, content_version>>
     ELSE IF fault = "products" \/ Vocabulary(catalog) = {}
     THEN \* fit_transform: "empty vocabulary", or the product batch fails and rolls back
          /\ Failed
          /\ user_item_matrix' = m
          /\ product_features' = [loaded |-> TRUE, ids |-> catalog]
          /\ model_versions' = v
          /\ UNCHANGED <<pgvector_enabled, catalog, purchases, product_embeddings,
                         customer_embeddings, cf_version, content_version>>
     ELSE IF fault = "customers"
     THEN \* the purchase-pattern batch fails and rolls back
          /\ Failed
          /\ user_item_matrix' = m
          /\ product_features' = [loaded |-> TRUE, ids |-> catalog]
          /\ model_versions' = v
          /\ product_embeddings' = pe1
          /\ content_version' = v
          /\ UNCHANGED <<pgvector_enabled, catalog, purchases, customer_embeddings, cf_version>>
     ELSE IF fault = "generator"
     THEN \* the content-aggregation batch fails and rolls back
          /\ Failed
          /\ user_item_matrix' = m
          /\ product_features' = [loaded |-> TRUE, ids |-> catalog]
          /\ model_versions' = v
          /\ product_embeddings' = pe1
          /\ content_version' = v
          /\ customer_embeddings' = ce1
          /\ cf_version' = v
          /\ UNCHANGED <<pgvector_enabled, catalog, purchases>>
     ELSE /\ last' = [Call("retrain", 0, 0, FALSE, <<>>) EXCEPT !.args = <<fault>>, !.version = v]
          /\ user_item_matrix' = m
          /\ product_features' = [loaded |-> TRUE, ids |-> catalog]
          /\ model_versions' = v
          /\ product_embeddings' = pe1
          /\ content_version' = v
          /\ customer_embeddings' = ce2
          /\ cf_version' = v
          /\ UNCHANGED <<pgvector_enabled, catalog, purchases>>
  /\ \E fails \in BOOLEAN :
       cache' \in IF last'.raised \/ cache_service = NoService
                  THEN {cache}
                  ELSE invalidate_all_recommendations(fails)
  /\ UNCHANGED <<weights, cache_service, cache_client>>


\* ------------------------------------------------------------ the vector store
\* get_similar_customers_pgvector: the k customers nearest to c's stored vector, c itself
\* left out, as sequences of customer ids by distance ascending
CustomerDistance(c, other) == Distance(customer_embeddings[c].vec, customer_embeddings[other].vec)

\* get_similar_customers_pgvector without "ce2.customer_id != %s"
get_similar_customers_with_self(c, k) ==
  IF ~pgvector_enabled \/ customer_embeddings[c] = NoEmbedding THEN {<<>>}
  ELSE OrderByAsc({o \in Customers : customer_embeddings[o] # NoEmbedding},
                  [o \in Customers |->
                     IF customer_embeddings[o] # NoEmbedding THEN CustomerDistance(c, o) ELSE 0],
                  k)

get_similar_customers_pgvector(c, k) ==
  IF ~pgvector_enabled \/ customer_embeddings[c] = NoEmbedding THEN {<<>>}
  ELSE OrderByAsc({o \in Customers \ {c} : customer_embeddings[o] # NoEmbedding},
                  [o \in Customers |->
                     IF customer_embeddings[o] # NoEmbedding THEN CustomerDistance(c, o) ELSE 0],
                  k)

\* recommend_products_pgvector: the top_n products nearest to query_embedding, the
\* excluded ones left out, as sequences of product ids by distance ascending
recommend_products_pgvector(query_embedding, exclude_product_ids, top_n) ==
  IF ~pgvector_enabled THEN {<<>>}
  ELSE OrderByAsc({p \in Products \ exclude_product_ids : product_embeddings[p] # NoEmbedding},
                  [p \in Products |->
                     IF product_embeddings[p] # NoEmbedding
                     THEN Distance(query_embedding, product_embeddings[p].vec) ELSE 0],
                  top_n)

\* get_product_embeddings_by_ids
get_product_embeddings_by_ids(product_ids) ==
  {p \in product_ids : pgvector_enabled /\ product_embeddings[p] # NoEmbedding}

\* ------------------------------------------------------ distance to similarity
\* RecommendationEngine.get_similar_customers: max(0, 1 - distance / 2)
SimilarityCustomers(distance) == Max(0, Scale - (distance \div 2))

\* ContentBasedRecommender.get_recommendations: max(0, 1 - distance / 2)
SimilarityContent(distance) == Max(0, Scale - (distance \div 2))

\* 1 - distance / 2 without the clamp at 0
SimilarityUnclamped(distance) == Scale - (distance \div 2)

\* ContentBasedRecommender.get_similar_products: max(0, 1 - distance / 2)
SimilarityProducts(distance) == Max(0, Scale - (distance \div 2))

\* ------------------------------------------------------------ recommendations
Rec(p, score, reason) == [product_id |-> p, score |-> score, reason |-> reason]

Ids(recs) == {recs[i].product_id : i \in 1..Len(recs)}

Raised == [called |-> TRUE, raised |-> TRUE, recs |-> <<>>, neighbour_query |-> FALSE]
Returned(recs, nq) == [called |-> TRUE, raised |-> FALSE, recs |-> recs, neighbour_query |-> nq]

\* _get_popular_items without its limit
cf_get_popular_items_unlimited(top_n) ==
  {[i \in 1..Len(s) |-> Rec(s[i], purchase_count(s[i]) * Scale, "popular")] :
     s \in get_popular_products(NumProducts)}

\* the rows both recommenders build from the answer of get_popular_products
PopularRows(popular) ==
  [i \in 1..Len(popular) |-> Rec(popular[i], purchase_count(popular[i]) * Scale, "popular")]

\* RecommendationEngine._get_popular_items
cf_get_popular_items(top_n) == {PopularRows(s) : s \in get_popular_products(top_n)}

\* the rows of ContentBasedRecommender._get_popular_items: the lookup of a product that the
\* loaded product_features do not hold raises, and the handler returns []
ContentPopularRows(popular) ==
  IF product_features.loaded /\ \E i \in 1..Len(popular) : popular[i] \notin product_features.ids
  THEN <<>>
  ELSE PopularRows(popular)

\* ContentBasedRecommender._get_popular_items
content_get_popular_items(top_n) == {ContentPopularRows(s) : s \in get_popular_products(top_n)}

\* 1.0 / (distance + 0.001)
SimilarityWeight(distance) == (Scale * Scale) \div (distance + epsilon)

\* the quantities of the neighbours' purchases, every neighbour counted alike
ProductScoreUnweighted(c, neighbours, p) ==
  SumOver(neighbours, [o \in Customers |-> Scale * Quantity(o, p)])

\* product_scores: the weighted quantities of the neighbours' purchases
ProductScore(c, neighbours, p) ==
  SumOver(neighbours,
          [o \in Customers |-> SimilarityWeight(CustomerDistance(c, o)) * Quantity(o, p)])

\* the fill without its two membership tests
BackfillUnfiltered(recs, popular, exclude_products, top_n) == Take(recs \o popular, top_n)

\* the list built from the scored products, filled up with popular items
Backfill(recs, popular, exclude_products, top_n) ==
  LET recommended_ids == Ids(recs)
      Fresh(item) == item.product_id \notin recommended_ids
                     /\ item.product_id \notin exclude_products
  IN Take(recs \o SelectSeq(popular, Fresh), top_n)

\* RecommendationEngine.get_recommendations(customer_id, top_n, k_similar_customers=k)
CFOutcomes(c, top_n, k) ==
  IF ~pgvector_enabled THEN {Raised}
  ELSE IF customer_embeddings[c] = NoEmbedding
  THEN {Returned(r, FALSE) : r \in cf_get_popular_items(top_n)}
  ELSE UNION {
    LET neighbours == Range(similar)
        exclude_products == get_customer_purchased_product_ids(c)
        candidates == {p \in Products \ exclude_products :
                         \E o \in neighbours : purchases[o][p].n > 0}
        score == [p \in Products |-> ProductScore(c, neighbours, p)]
    IN IF similar = <<>> \/ candidates = {}
       THEN {Returned(r, TRUE) : r \in cf_get_popular_items(top_n)}
       ELSE UNION {
         LET recs == [i \in 1..Len(sorted) |->
                        Rec(sorted[i], score[sorted[i]], "customers_like_you")]
         IN IF Len(recs) < top_n
            THEN {Returned(Backfill(recs, popular, exclude_products, top_n), TRUE) :
                    popular \in cf_get_popular_items(top_n - Len(recs))}
            ELSE {Returned(Take(recs, top_n), TRUE)}
         : sorted \in OrderByDesc(candidates, score, top_n)}
    : similar \in get_similar_customers_pgvector(c, k)}

\* ContentBasedRecommender.get_recommendations(customer_id, top_n, min_similarity)
ContentOutcomes(c, top_n) ==
  LET purchased_product_ids == get_customer_purchases(c)
      purchased_embeddings == get_product_embeddings_by_ids(purchased_product_ids)
      Similar(pp) == recommend_products_pgvector(product_embeddings[pp].vec,
                                                 purchased_product_ids, candidate_pool)
      Sim(pp, p) == SimilarityContent(Distance(product_embeddings[pp].vec,
                                               product_embeddings[p].vec))
      Answers == {f \in [purchased_embeddings -> UNION {Similar(pp) : pp \in purchased_embeddings}] :
                    \A pp \in purchased_embeddings : f[pp] \in Similar(pp)}
  IN
  IF ~pgvector_enabled THEN {Raised}
  ELSE IF purchased_product_ids = {} \/ purchased_embeddings = {}
  THEN {Returned(r, FALSE) : r \in content_get_popular_items(top_n)}
  ELSE UNION {
    LET Counts(pp, p) == p \in Range(answer[pp]) /\ Sim(pp, p) >= min_similarity
        candidates == {p \in Products : \E pp \in purchased_embeddings : Counts(pp, p)}
        score == [p \in Products |->
                    SumOver(purchased_embeddings,
                            [pp \in Products |-> IF Counts(pp, p) THEN Sim(pp, p) ELSE 0])]
    IN IF candidates = {}
       THEN {Returned(r, FALSE) : r \in content_get_popular_items(top_n)}
       ELSE {LET InProducts(p) == p \in catalog
                 kept == SelectSeq(sorted, InProducts)
             IN Returned([i \in 1..Len(kept) |-> Rec(kept[i], score[kept[i]], "content_based")],
                         FALSE) :
               sorted \in OrderByDesc(candidates, score, top_n)}
    : answer \in Answers}

\* --------------------------------------------------------------- the hybrid
RECURSIVE MergeCF(_, _)
\* the loop over cf_recs: combined_scores[product_id] = score * cf_weight
MergeCF(recs, acc) ==
  IF recs = <<>> THEN acc
  ELSE LET r == Head(recs)
       IN MergeCF(Tail(recs),
                  [order |-> IF r.product_id \in Range(acc.order) THEN acc.order
                             ELSE Append(acc.order, r.product_id),
                   score |-> [acc.score EXCEPT ![r.product_id] = r.score * cf_weight]])

RECURSIVE MergeContentOverwrite(_, _)
\* the content loop with `=` where the code has `+=`
MergeContentOverwrite(recs, acc) ==
  IF recs = <<>> THEN acc
  ELSE LET r == Head(recs)
       IN MergeContentOverwrite(Tail(recs),
                                [order |-> IF r.product_id \in Range(acc.order) THEN acc.order
                                           ELSE Append(acc.order, r.product_id),
                                 score |-> [acc.score EXCEPT
                                              ![r.product_id] = r.score * content_weight]])

RECURSIVE MergeContent(_, _)
\* the loop over content_recs: += score * content_weight, or a new key
MergeContent(recs, acc) ==
  IF recs = <<>> THEN acc
  ELSE LET r == Head(recs)
       IN MergeContent(Tail(recs),
                       IF r.product_id \in Range(acc.order)
                       THEN [order |-> acc.order,
                             score |-> [acc.score EXCEPT
                                          ![r.product_id] = @ + r.score * content_weight]]
                       ELSE [order |-> Append(acc.order, r.product_id),
                             score |-> [acc.score EXCEPT
                                          ![r.product_id] = r.score * content_weight]])

RECURSIVE InsertDesc(_, _, _)
InsertDesc(sorted, x, score) ==
  IF sorted = <<>> THEN <<x>>
  ELSE IF score[Head(sorted)] >= score[x]
  THEN <<Head(sorted)>> \o InsertDesc(Tail(sorted), x, score)
  ELSE <<x>> \o sorted

RECURSIVE StableSortDesc(_, _)
\* sorted(items, key=score, reverse=True): equal scores keep their order
StableSortDesc(order, score) ==
  IF order = <<>> THEN <<>>
  ELSE InsertDesc(StableSortDesc(SubSeq(order, 1, Len(order) - 1), score),
                  order[Len(order)], score)

\* the merge without its cut to top_n
HybridMergeUncut(cf_recs, content_recs, top_n) ==
  LET acc == MergeContent(content_recs,
                          MergeCF(cf_recs, [order |-> <<>>, score |-> [p \in Products |-> 0]]))
      sorted_products == StableSortDesc(acc.order, acc.score)
  IN [i \in 1..Len(sorted_products) |->
        Rec(sorted_products[i], acc.score[sorted_products[i]], "hybrid")]

\* the body of the try block once both lists are in
HybridMerge(cf_recs, content_recs, top_n) ==
  LET acc == MergeContent(content_recs,
                          MergeCF(cf_recs, [order |-> <<>>, score |-> [p \in Products |-> 0]]))
      sorted_products == Take(StableSortDesc(acc.order, acc.score), top_n)
  IN [i \in 1..Len(sorted_products) |->
        Rec(sorted_products[i], acc.score[sorted_products[i]], "hybrid")]

\* the store errors a hybrid call may meet: none, one during the collaborative
\* call, one during the content call, one during the collaborative call and
\* one more during the call of the except branch
HybridFaults == {"none", "cf", "content", "cf_twice"}

\* a sub-recommender call during which the store may fail (fault)
Sub(outcomes, fault) == IF fault THEN {Raised} ELSE outcomes

\* HybridRecommender.get_recommendations(customer_id, top_n)
HybridOutcomes(c, top_n, fault) ==
  LET Fallback(cf, content) ==
        \* except: return self.cf_recommender.get_recommendations(customer_id, top_n)
        {[raised |-> fb.raised, result |-> fb.recs, cf |-> cf, content |-> content, fallback |-> fb] :
           fb \in Sub(CFOutcomes(c, top_n, k_similar_customers), fault = "cf_twice")}
  IN UNION {
       IF cf.raised THEN Fallback(cf, NotCalled)
       ELSE UNION {
         IF content.raised THEN Fallback(cf, content)
         ELSE {[raised |-> FALSE, result |-> HybridMerge(cf.recs, content.recs, top_n),
                cf |-> cf, content |-> content, fallback |-> NotCalled]}
         : content \in Sub(ContentOutcomes(c, top_n * 2), fault = "content")}
       : cf \in Sub(CFOutcomes(c, top_n * 2, k_similar_customers), fault \in {"cf", "cf_twice"})}

\* set_weights without its check
WeightsUnchecked(cf, content) == TRUE

\* abs(cf_weight + content_weight - 1.0) > 0.01 is not the case
WeightsValid(cf, content) == ~(Abs(cf + content - WeightScale) > weight_tolerance)

\* the weights a caller passes to set_weights (0.7, 0.3) and (0.7, 0.4)
WeightInputs == {<<(7 * WeightScale) \div 10, (3 * WeightScale) \div 10>>,
                 <<(7 * WeightScale) \div 10, (4 * WeightScale) \div 10>>}

\* HybridRecommender.set_weights(cf, content)
SetWeights(cf, content) ==
  /\ IF WeightsValid(cf, content)
     THEN /\ cf_weight' = cf
          /\ content_weight' = content
          /\ last' = [Call("set_weights", 0, 0, FALSE, <<>>) EXCEPT !.args = <<cf, content>>]
     ELSE /\ UNCHANGED weights
          /\ last' = [Call("set_weights", 0, 0, TRUE, <<>>) EXCEPT !.args = <<cf, content>>]
  /\ UNCHANGED <<store, engines, cache_vars>>

\* ------------------------------------------------------------------ queries
\* a call of RecommendationEngine.get_recommendations(c, top_n)
CFGetRecommendations(c, top_n) ==
  /\ \E o \in CFOutcomes(c, top_n, k_similar_customers) :
       last' = [Call("cf", c, top_n, o.raised, o.recs) EXCEPT !.cf = o]
  /\ UNCHANGED <<store, engines, weights, cache_vars>>

\* a call of ContentBasedRecommender.get_recommendations(c, top_n)
ContentGetRecommendations(c, top_n) ==
  /\ \E o \in ContentOutcomes(c, top_n) :
       last' = [Call("content", c, top_n, o.raised, o.recs) EXCEPT !.content = o]
  /\ UNCHANGED <<store, engines, weights, cache_vars>>

\* a call of HybridRecommender.get_recommendations(c, top_n) that meets the store errors `fault`
HybridGetRecommendations(c, top_n, fault) ==
  /\ \E o \in HybridOutcomes(c, top_n, fault) :
       last' = [Call("hybrid", c, top_n, o.raised, o.result) EXCEPT
                  !.cf = o.cf, !.content = o.content, !.fallback = o.fallback]
  /\ UNCHANGED <<store, engines, weights, cache_vars>>

QueryOps == {"cf", "content", "hybrid"}

\* A query writes nothing but `last`, which every call overwrites: a query that
\* follows a query reaches no state that a query following any other call
\* does not reach, so Next issues queries after the other calls only.
Next ==
  \/ \E p \in Products : AddProduct(p)
  \/ \E c \in ActiveCustomers, p \in Products, quantity \in 1..MaxQty :
       Purchase(c, p, quantity)
  \/ model_versions < MaxVersions /\ Retrain("none")
  \/ \E w \in WeightInputs : SetWeights(w[1], w[2])
  \/ last.op \notin QueryOps /\ \E c \in ActiveCustomers, top_n \in TopNs :
       CFGetRecommendations(c, top_n)
  \/ last.op \notin QueryOps /\ \E c \in ActiveCustomers, top_n \in TopNs :
       ContentGetRecommendations(c, top_n)
  \/ last.op \notin QueryOps /\ \E c \in ActiveCustomers, top_n \in TopNs, fault \in HybridFaults :
       HybridGetRecommendations(c, top_n, fault)

Spec == Init /\ [][Next]_vars

\* ------------------------------------------- the conversion taken on its own
DistanceStep == Scale \div 40
Distances == {k * DistanceStep : k \in 0..MaxDistanceSteps}

\* the three callers' conversions applied to one distance
ConvertDistance(distance) ==
  /\ last' = [Call("similarity", 0, 0, FALSE,
                    <<SimilarityCustomers(distance), SimilarityContent(distance),
                      SimilarityProducts(distance)>>) EXCEPT !.args = <<distance>>]
  /\ UNCHANGED <<store, engines, weights, cache_vars>>

NextSimilarity == \E distance \in Distances : ConvertDistance(distance)

SpecSimilarity == Init /\ [][NextSimilarity]_vars

\* ===================================================================== claims

\* C1: no list returned by the collaborative or by the content
\* get_recommendations holds a product that the customer has purchased,
\* whichever return path produced it
C1_NeverRecommendsPurchased ==
  (last.op \in {"cf", "content"} /\ ~last.raised)
    => Ids(last.result) \cap get_customer_purchased_product_ids(last.customer) = {}

\* C2: set_weights(cf, content) raises when |cf + content - 1.0| > 0.01 and
\* then leaves both stored weights as they were; otherwise it does not raise
\* and both stored weights equal the arguments
C2_SetWeightsValidates ==
  [][last'.op = "set_weights" =>
       LET cf == last'.args[1]
           content == last'.args[2]
       IN IF Abs(cf + content - WeightScale) > weight_tolerance
          THEN last'.raised /\ cf_weight' = cf_weight /\ content_weight' = content_weight
          ELSE ~last'.raised /\ cf_weight' = cf /\ content_weight' = content]_vars

\* set_weights(0.7, 0.4) was rejected after set_weights(0.7, 0.3) had been stored
C2_RejectedAfterStored ==
  /\ last.op = "set_weights"
  /\ last.raised
  /\ last.args = <<(7 * WeightScale) \div 10, (4 * WeightScale) \div 10>>
  /\ cf_weight = (7 * WeightScale) \div 10
  /\ content_weight = (3 * WeightScale) \div 10

\* the score a list gives a product: 0 when the list does not hold it
ScoreIn(recs, p) ==
  IF p \in Ids(recs)
  THEN recs[CHOOSE i \in 1..Len(recs) : recs[i].product_id = p].score
  ELSE 0

\* a hybrid call in which both sub-recommenders returned
BothSucceeded ==
  /\ last.op = "hybrid"
  /\ last.cf.called /\ ~last.cf.raised
  /\ last.content.called /\ ~last.content.raised

\* C3: when both sub-recommenders succeed, the combined score of a product is
\* cf_score * cf_weight + content_score * content_weight over the lists that
\* hold it, with the combiner's current weights
C3_CombinedScore ==
  BothSucceeded =>
    \A i \in 1..Len(last.result) :
      LET p == last.result[i].product_id
      IN /\ p \in Ids(last.cf.recs) \cup Ids(last.content.recs)
         /\ last.result[i].score =
              ScoreIn(last.cf.recs, p) * cf_weight
                + ScoreIn(last.content.recs, p) * content_weight

\* a hybrid list with a product that both lists hold, under different scores,
\* and a product that only one list holds
C3_InBothAndInOne ==
  /\ BothSucceeded
  /\ \E i \in 1..Len(last.result) :
       LET p == last.result[i].product_id
       IN /\ p \in Ids(last.cf.recs) \cap Ids(last.content.recs)
          /\ ScoreIn(last.cf.recs, p) # ScoreIn(last.content.recs, p)
  /\ \E i \in 1..Len(last.result) :
       LET p == last.result[i].product_id
       IN (p \in Ids(last.cf.recs)) # (p \in Ids(last.content.recs))

\* the lists that a successful collaborative get_recommendations(c, top_n) may return
CollaborativeLists(c, top_n) ==
  {o.recs : o \in {x \in CFOutcomes(c, top_n, k_similar_customers) : ~x.raised}}

\* the lists that a successful content get_recommendations(c, top_n) may return
ContentLists(c, top_n) ==
  {o.recs : o \in {x \in ContentOutcomes(c, top_n) : ~x.raised}}

\* C4: if either sub-recommender raises during a hybrid get_recommendations,
\* the hybrid call does not raise and returns the collaborative
\* get_recommendations(customer_id, top_n) result
C4_DegradesToCollaborative ==
  (last.op = "hybrid" /\ (last.cf.raised \/ last.content.raised))
    => /\ ~last.raised
       /\ last.result \in CollaborativeLists(last.customer, last.top_n)

\* C5: if exactly one of the two sub-recommenders fails inside a hybrid call,
\* the call recovers and returns the output of the other one: a content list
\* when the collaborative recommender failed, a collaborative list when the
\* content recommender failed (stated for the calls that meet one store error
\* only, with the vector store available)
C5_ReturnsSurvivor ==
  (last.op = "hybrid" /\ pgvector_enabled /\ ~last.fallback.raised)
    => /\ last.cf.raised
            => /\ ~last.raised
               /\ last.result \in ContentLists(last.customer, last.top_n)
                                    \cup ContentLists(last.customer, last.top_n * 2)
       /\ (~last.cf.raised /\ last.content.raised)
            => /\ ~last.raised
               /\ last.result \in CollaborativeLists(last.customer, last.top_n)
                                    \cup CollaborativeLists(last.customer, last.top_n * 2)

\* ids is a popularity order of length min(n, number of purchased products):
\* distinct purchased products, by purchase count descending, none left out
\* that was purchased more often than one taken
IsPopularityOrder(ids, n) ==
  LET purchased == {p \in Products : purchase_count(p) > 0}
  IN /\ Len(ids) = Min(n, Cardinality(purchased))
     /\ \A i \in 1..Len(ids) : ids[i] \in purchased
     /\ \A i, j \in 1..Len(ids) : i < j =>
          /\ ids[i] # ids[j]
          /\ purchase_count(ids[i]) >= purchase_count(ids[j])
     /\ \A p \in purchased \ Range(ids) :
          \A i \in 1..Len(ids) : purchase_count(ids[i]) >= purchase_count(p)

\* recs is a Popularity Fallback list for n: a popularity order whose entries
\* carry the purchase count as score and the reason 'popular'
IsPopularityFallback(recs, n) ==
  /\ IsPopularityOrder([i \in 1..Len(recs) |-> recs[i].product_id], n)
  /\ \A i \in 1..Len(recs) :
       /\ recs[i].score = purchase_count(recs[i].product_id) * Scale
       /\ recs[i].reason = "popular"

\* a query for a customer without purchases, answered with the vector store
\* available and no store error
ZeroPurchaseQuery ==
  /\ last.op \in QueryOps
  /\ get_customer_purchased_product_ids(last.customer) = {}
  /\ pgvector_enabled
  /\ ~last.raised /\ ~last.cf.raised /\ ~last.content.raised

\* C6: for a customer with zero purchases the collaborative, the content and
\* the hybrid get_recommendations return the Popularity Fallback products in
\* popularity order; the hybrid list is the fallback's first top_n ids, each
\* with score purchase_count * (cf_weight + content_weight)
C6_ZeroPurchaseFallback ==
  ZeroPurchaseQuery =>
    IF last.op = "hybrid"
    THEN /\ IsPopularityOrder([i \in 1..Len(last.result) |-> last.result[i].product_id],
                              last.top_n)
         /\ \A i \in 1..Len(last.result) :
              last.result[i].score =
                purchase_count(last.result[i].product_id) * Scale * (cf_weight + content_weight)
    ELSE IsPopularityFallback(last.result, last.top_n)

\* C7: when the customer has no stored embedding and the vector store is
\* available, the collaborative get_recommendations raises no error and
\* returns exactly the Popularity Fallback list for top_n, every entry tagged
\* 'popular', without running a neighbour query
C7_NoEmbeddingFallsBack ==
  (last.op = "cf" /\ pgvector_enabled /\ customer_embeddings[last.customer] = NoEmbedding)
    => /\ ~last.raised
       /\ IsPopularityFallback(last.result, last.top_n)
       /\ ~last.cf.neighbour_query

\* a collaborative call for a customer without embedding while other customers
\* have one, answered with fewer entries than there are purchased products
C7_ColdStartAmongEmbedded ==
  /\ last.op = "cf" /\ pgvector_enabled
  /\ customer_embeddings[last.customer] = NoEmbedding
  /\ \E o \in Customers : customer_embeddings[o] # NoEmbedding
  /\ Len(last.result) = last.top_n
  /\ Cardinality({p \in Products : purchase_count(p) > 0}) > last.top_n

\* the stored vectors
StoredVectors ==
  {product_embeddings[p].vec : p \in {x \in Products : product_embeddings[x] # NoEmbedding}}
    \cup {customer_embeddings[c].vec : c \in {x \in Customers : customer_embeddings[x] # NoEmbedding}}

\* unit L2 norm, up to the rounding of the components to 1/Scale
IsUnit(v) == Abs(Norm(v) - Scale) <= D + 1

\* C8: in every reachable store state every stored product embedding and every
\* stored customer embedding has exactly D components and unit L2 norm, and so
\* is never the all-zero vector
C8_StoredVectorsUnit ==
  \A v \in StoredVectors : Len(v) = D /\ IsUnit(v) /\ ~IsZero(v)

\* C9: an entity whose raw vector is all-zero after pad/truncate to D (a
\* product with no retained term, a customer whose purchases all fall in
\* truncated columns, a customer none of whose purchased products has a stored
\* embedding) gets no embedding: a retrain writes no row for it
C9_ZeroRawVectorWritesNothing ==
  [][(last'.op = "retrain" /\ ~last'.raised) =>
       LET m == get_purchase_matrix
           NoPattern(c) == c \notin MatrixCustomers(m) \/ IsZero(PurchaseRow(c, m))
           mean == [c \in Customers |-> WeightedMean(c, product_embeddings', TRUE)]
           NoAggregate(c) == mean[c] = NoVector \/ IsZero(mean[c])
       IN /\ \A p \in catalog :
               IsZero(PadTruncate(TfidfRow(p, catalog)))
                 => product_embeddings'[p] = product_embeddings[p]
          /\ \A c \in Customers :
               (NoPattern(c) /\ NoAggregate(c))
                 => customer_embeddings'[c] = customer_embeddings[c]]_vars

\* C10: the conversion similarity = max(0, 1 - distance / 2) is the same in
\* get_similar_customers, the content get_recommendations and
\* get_similar_products; it stays in [0, 1], is 1 at distance 0 and 0 at every
\* distance >= 2, and does not increase when the distance grows
C10_SimilarityConversion ==
  /\ [](last.op = "similarity" =>
          LET distance == last.args[1]
              similarity == last.result[1]
          IN /\ last.result[2] = similarity /\ last.result[3] = similarity
             /\ Abs(2 * similarity - Max(0, 2 * Scale - distance)) <= 1
             /\ similarity >= 0 /\ similarity <= Scale
             /\ distance = 0 => similarity = Scale
             /\ distance >= 2 * Scale => similarity = 0)
  /\ [][(last.op = "similarity" /\ last'.op = "similarity"
           /\ last.args[1] <= last'.args[1])
          => \A k \in 1..3 : last'.result[k] <= last.result[k]]_vars

\* a distance beyond 2 was converted, to similarity 0
C10_BeyondTwo ==
  /\ last.op = "similarity"
  /\ last.args[1] > 2 * Scale
  /\ last.result = <<0, 0, 0>>

\* =========================================================== the vector store
\* the vectors a caller hands to the single-row upserts
UpsertVectors == {PadTruncate(<<Scale>>), PadTruncate(<<(6 * Scale) \div 10, (8 * Scale) \div 10>>)}

\* INSERT ... ON CONFLICT (id) DO NOTHING: the first row of an id stays
InsertIfAbsent(table, id, vec, ver) ==
  IF table[id] = NoEmbedding THEN [table EXCEPT ![id] = Embedding(vec, ver)] ELSE table

\* INSERT ... ON CONFLICT (id) DO UPDATE SET embedding, model_version_id.  The
\* vector column holds single-precision floats: the rounding (relative 6e-8)
\* is below the resolution 1/Scale of a component
UpsertRow(table, id, vec, ver) == [table EXCEPT ![id] = Embedding(vec, ver)]

\* SELECT embedding FROM ... WHERE id = %s: the row's vector, or None
FetchRow(table, id) ==
  IF ~pgvector_enabled \/ table[id] = NoEmbedding THEN NoVector ELSE table[id].vec

\* DatabaseService.log_new_model_version
LogNewModelVersion ==
  /\ model_versions' = model_versions + 1
  /\ last' = [Call("log_new_model_version", 0, 0, FALSE, <<>>) EXCEPT
                !.version = model_versions + 1]
  /\ UNCHANGED <<pgvector_enabled, catalog, purchases, product_embeddings,
                 customer_embeddings, engines, weights, cache_vars>>

\* DatabaseService.upsert_product_embedding(p, vec, ver)
UpsertProductEmbedding(p, vec, ver) ==
  /\ p \in catalog
  /\ ver \in 1..model_versions
  /\ product_embeddings' = IF pgvector_enabled
                           THEN UpsertRow(product_embeddings, p, vec, ver)
                           ELSE product_embeddings
  /\ last' = [Call("upsert_product_embedding", 0, 0, FALSE, <<>>) EXCEPT
                !.args = <<p, vec, ver>>]
  /\ UNCHANGED <<pgvector_enabled, catalog, purchases, model_versions,
                 customer_embeddings, engines, weights, cache_vars>>

\* DatabaseService.upsert_customer_embedding(c, vec, ver)
UpsertCustomerEmbedding(c, vec, ver) ==
  /\ ver \in 1..model_versions
  /\ customer_embeddings' = IF pgvector_enabled
                            THEN UpsertRow(customer_embeddings, c, vec, ver)
                            ELSE customer_embeddings
  /\ last' = [Call("upsert_customer_embedding", c, 0, FALSE, <<>>) EXCEPT
                !.args = <<c, vec, ver>>]
  /\ UNCHANGED <<pgvector_enabled, catalog, purchases, model_versions,
                 product_embeddings, engines, weights, cache_vars>>

\* DatabaseService.get_product_embedding(p)
GetProductEmbedding(p) ==
  /\ last' = [Call("get_product_embedding", 0, 0, FALSE, FetchRow(product_embeddings, p))
                EXCEPT !.args = <<p>>]
  /\ UNCHANGED <<store, engines, weights, cache_vars>>

\* DatabaseService.get_customer_embedding(c)
GetCustomerEmbedding(c) ==
  /\ last' = [Call("get_customer_embedding", c, 0, FALSE, FetchRow(customer_embeddings, c))
                EXCEPT !.args = <<c>>]
  /\ UNCHANGED <<store, engines, weights, cache_vars>>

NextStore ==
  \/ \E p \in Products : AddProduct(p)
  \/ model_versions < MaxVersions /\ LogNewModelVersion
  \/ \E p \in Products, vec \in UpsertVectors, ver \in 1..MaxVersions :
       UpsertProductEmbedding(p, vec, ver)
  \/ \E c \in ActiveCustomers, vec \in UpsertVectors, ver \in 1..MaxVersions :
       UpsertCustomerEmbedding(c, vec, ver)
  \/ \E p \in Products : GetProductEmbedding(p)
  \/ \E c \in ActiveCustomers : GetCustomerEmbedding(c)

SpecStore == Init /\ [][NextStore]_vars

EmbeddingOps ==
  {"upsert_product_embedding", "upsert_customer_embedding", "retrain", "cf", "content",
   "hybrid", "get_similar_customers", "get_similar_products"}

\* C12: when the vector store capability is unavailable, every
\* embedding-dependent operation surfaces an error to its caller: none returns
\* as if it had succeeded
C12_RefusesWithoutVectorStore ==
  (~pgvector_enabled /\ last.op \in EmbeddingOps) => last.raised

\* ------------------------------------------------- retraining under store errors
\* the operations that write the store one call at a time, and POST /retrain with a store
\* error at any of its writes; the version counter is capped where a retrain can add to it
NoPurchaseRows == \A c \in Customers, p \in Products : purchases[c][p] = NoPurchase

\* the vector a hand-written row holds
SeedVectors == {PadTruncate(<<Scale>>)}

NextRetrain ==
  \/ \E p \in Products : AddProduct(p)
  \/ \E c \in ActiveCustomers, p \in Products, quantity \in 1..MaxQty :
       Purchase(c, p, quantity)
  \/ model_versions < MaxVersions /\ LogNewModelVersion
  \/ \E p \in Products, vec \in SeedVectors, ver \in 1..MaxVersions :
       UpsertProductEmbedding(p, vec, ver)
  \/ \E c \in ActiveCustomers, vec \in SeedVectors, ver \in 1..MaxVersions :
       UpsertCustomerEmbedding(c, vec, ver)
  \/ \E fault \in RetrainFaults :
       (model_versions < MaxVersions \/ NoPurchaseRows) /\ Retrain(fault)

SpecRetrain == Init /\ [][NextRetrain]_vars

\* C13: a retrain that finds no purchase rows or no product rows fails, and leaves the model
\* versions and every stored product and customer embedding as they were
C13_AbortsBeforeVersion ==
  [][(last'.op = "retrain" /\ (NoPurchaseRows \/ catalog = {}))
       => /\ last'.raised
          /\ UNCHANGED <<model_versions, product_embeddings, customer_embeddings>>]_vars

\* a retrain has failed for want of purchase rows while a version and embeddings were stored
C13_FailedOverStoredEmbeddings ==
  /\ last.op = "retrain"
  /\ last.raised
  /\ pgvector_enabled
  /\ NoPurchaseRows
  /\ model_versions > 0
  /\ \E p \in Products : product_embeddings[p] # NoEmbedding
  /\ \E c \in Customers : customer_embeddings[c] # NoEmbedding

\* C15: a retrain that ends in an error, at whatever step, leaves the product embeddings, the
\* customer embeddings and the model versions exactly as they were before it
C15_RetrainAllOrNothing ==
  [][(last'.op = "retrain" /\ last'.raised)
       => UNCHANGED <<model_versions, product_embeddings, customer_embeddings>>]_vars

\* -------------------------------------------------------------- the result cache
\* RecommendationStrategy
Strategies == {"hybrid", "cf", "content", "popular"}

\* _key_for_recommendations(customer_id, strategy.name.lower(), limit): rec:strategy:customer:limit
StrategyName(strategy) ==
  CASE strategy = "cf" -> "collaborative"
    [] strategy = "content" -> "content_based"
    [] OTHER -> strategy

CacheKey(c, strategy, limit) == <<"rec", StrategyName(strategy), c, limit>>

\* what a cache read gives: None, or the decoded payload
Miss == [raised |-> FALSE, hit |-> FALSE, value |-> <<>>]
Hit(value) == [raised |-> FALSE, hit |-> TRUE, value |-> value]

\* a read whose Redis error is let through to the caller
cache_get_unguarded(c, strategy, limit, fails) ==
  IF ~cache_client THEN Miss
  ELSE IF fails THEN [raised |-> TRUE, hit |-> FALSE, value |-> <<>>]
  ELSE LET found == {e \in cache : e.key = CacheKey(c, strategy, limit)}
       IN IF found = {} THEN Miss ELSE Hit((CHOOSE e \in found : TRUE).value)

\* CacheService.get_recommendations; fails: client.get raises
cache_get_recommendations(c, strategy, limit, fails) ==
  IF ~cache_client THEN Miss
  ELSE IF fails THEN Miss
  ELSE LET found == {e \in cache : e.key = CacheKey(c, strategy, limit)}
       IN IF found = {} THEN Miss ELSE Hit((CHOOSE e \in found : TRUE).value)

\* CacheService.set_recommendations: the keys afterwards; fails: client.set raises
cache_set_recommendations(c, strategy, limit, value, fails) ==
  IF ~cache_client \/ fails THEN cache
  ELSE {e \in cache : e.key # CacheKey(c, strategy, limit)}
         \cup {[key |-> CacheKey(c, strategy, limit), value |-> value]}

\* the POPULAR branch of the handler: score = purchase_count / 100
PopularOutcomes(limit) ==
  {Returned([i \in 1..Len(s) |-> Rec(s[i], (purchase_count(s[i]) * Scale) \div 100, "popular")],
            FALSE) : s \in get_popular_products(limit)}

\* the recommender the handler selects for a strategy
StrategyOutcomes(c, limit, strategy) ==
  CASE strategy = "hybrid" ->
         {[called |-> TRUE, raised |-> o.raised, recs |-> o.result, neighbour_query |-> FALSE] :
            o \in HybridOutcomes(c, limit, "none")}
    [] strategy = "cf" -> CFOutcomes(c, limit, k_similar_customers)
    [] strategy = "content" -> ContentOutcomes(c, limit)
    [] OTHER -> PopularOutcomes(limit)

\* GET /recommendations/{customer_id}?limit=&strategy= ; read_fails, write_fails: Redis errors
\* during the handler's read and write
HandlerGetRecommendations(c, limit, strategy, read_fails, write_fails) ==
  LET read == IF cache_service = NoService THEN Miss
              ELSE cache_get_recommendations(c, strategy, limit, read_fails)
      \* except Exception: cached = None; "if cached" is false for None and for []
      cached == IF read.raised \/ ~read.hit THEN <<>> ELSE read.value
      Answer(raised, recs, from_cache) ==
        last' = [Call("recommendations", c, limit, raised, recs) EXCEPT
                   !.args = <<strategy, from_cache>>]
  IN
  /\ IF cached # <<>>
     THEN /\ Answer(FALSE, cached, TRUE)
          /\ UNCHANGED cache
     ELSE \E o \in StrategyOutcomes(c, limit, strategy) :
            IF o.raised
            THEN \* HTTPException 500
                 /\ Answer(TRUE, <<>>, FALSE)
                 /\ UNCHANGED cache
            ELSE /\ Answer(FALSE, o.recs, FALSE)
                 /\ cache' = IF cache_service = NoService THEN cache
                             ELSE cache_set_recommendations(c, strategy, limit, o.recs, write_fails)
  /\ UNCHANGED <<store, engines, weights, cache_service, cache_client>>

\* the payloads a caller stores
CachePayloads == {<<Rec(1, Scale, "popular")>>}

\* CacheService.get_recommendations called on the service the lifespan built
CacheGet(c, strategy, limit, fails) ==
  LET r == cache_get_recommendations(c, strategy, limit, fails)
  IN
  /\ last' = [Call("cache_get", c, limit, r.raised, r.value) EXCEPT
                !.args = <<strategy, fails, r.hit>>]
  /\ UNCHANGED <<store, engines, weights, cache_vars>>

\* CacheService.set_recommendations called on the service the lifespan built
CacheSet(c, strategy, limit, value, fails) ==
  /\ cache' = cache_set_recommendations(c, strategy, limit, value, fails)
  /\ last' = [Call("cache_set", c, limit, FALSE, <<>>) EXCEPT !.args = <<strategy, fails>>]
  /\ UNCHANGED <<store, engines, weights, cache_service, cache_client>>

ReadOps == {"recommendations", "cache_get"}

\* a Redis call of a handler can fail only where the handler makes one
HandlerRedisFaults == IF cache_service = NoService THEN {FALSE} ELSE BOOLEAN

\* the data grows, the models are retrained, recommendations are requested and the cache is
\* read and written; a read follows a write, a read after a read adds nothing
NextCache ==
  \/ \E p \in Products : AddProduct(p)
  \/ \E c \in ActiveCustomers, p \in Products, quantity \in 1..MaxQty :
       Purchase(c, p, quantity)
  \/ model_versions < MaxVersions /\ Retrain("none")
  \/ last.op \notin ReadOps /\
       \E c \in ActiveCustomers, limit \in TopNs, strategy \in Strategies,
          rf \in HandlerRedisFaults, wf \in HandlerRedisFaults :
         HandlerGetRecommendations(c, limit, strategy, rf, wf)
  \/ last.op \notin ReadOps /\
       \E c \in ActiveCustomers, limit \in TopNs, fails \in BOOLEAN :
         CacheGet(c, "popular", limit, fails)
  \/ \E value \in CachePayloads, fails \in BOOLEAN :
       CacheSet(1, "popular", 1, value, fails)

SpecCache == Init /\ [][NextCache]_vars

\* C14: the cache is best-effort. A request that the cache did not answer (no cache, a miss, a
\* failed read) returns what the selected recommender computes, whatever happens to the cache
\* write; a cache read that fails gives what a miss gives and raises nothing; a cache write
\* that fails raises nothing.
C14_CacheBestEffort ==
  /\ (last.op = "recommendations" /\ ~last.args[2])
       => \E o \in StrategyOutcomes(last.customer, last.top_n, last.args[1]) :
            /\ last.raised = o.raised
            /\ last.result = o.recs
  /\ (last.op = "cache_get" /\ (last.args[2] \/ ~cache_client))
       => /\ ~last.raised
          /\ ~last.args[3]
          /\ last.result = Miss.value
  /\ last.op = "cache_set" => ~last.raised

\* a read of a stored key has failed
C14_FailedReadOfStoredKey ==
  /\ last.op = "cache_get"
  /\ last.args[2]
  /\ cache_client
  /\ \E e \in cache : e.key = CacheKey(last.customer, last.args[1], last.top_n)

\* ------------------------------------------------------------ the neighbourhood
\* the rows get_similar_customers builds from the neighbours
SimilarCustomerRows(c, similar) ==
  [i \in 1..Len(similar) |->
     [customer_id |-> similar[i],
      similarity_score |-> SimilarityCustomers(CustomerDistance(c, similar[i])),
      distance |-> CustomerDistance(c, similar[i])]]

\* RecommendationEngine.get_similar_customers(customer_id, top_n)
GetSimilarCustomers(c, top_n) ==
  /\ IF ~pgvector_enabled
     THEN last' = Call("similar_customers", c, top_n, TRUE, <<>>)
     ELSE \E similar \in get_similar_customers_pgvector(c, top_n) :
            last' = Call("similar_customers", c, top_n, FALSE, SimilarCustomerRows(c, similar))
  /\ UNCHANGED <<store, engines, weights, cache_vars>>

\* the values of k_similar_customers a caller passes: one neighbour, and the default
NeighbourCounts == {1, k_similar_customers}

\* RecommendationEngine.get_recommendations(customer_id, top_n, k_similar_customers)
CFGetRecommendationsAmong(c, top_n, k) ==
  /\ \E o \in CFOutcomes(c, top_n, k) :
       last' = [Call("cf_among", c, top_n, o.raised, o.recs) EXCEPT !.cf = o, !.args = <<k>>]
  /\ UNCHANGED <<store, engines, weights, cache_vars>>

NeighbourOps == {"cf_among", "similar_customers"}

\* every customer buys, the models are retrained, and the purchase-pattern recommender is
\* asked for recommendations and for neighbours
NextNeighbours ==
  \/ \E p \in Products : AddProduct(p)
  \/ \E c \in Customers, p \in Products, quantity \in 1..MaxQty :
       Purchase(c, p, quantity)
  \/ model_versions < MaxVersions /\ Retrain("none")
  \/ last.op \notin NeighbourOps /\ \E c \in Customers, top_n \in TopNs, k \in NeighbourCounts :
       CFGetRecommendationsAmong(c, top_n, k)
  \/ last.op \notin NeighbourOps /\ \E c \in Customers, top_n \in TopNs :
       GetSimilarCustomers(c, top_n)

SpecNeighbours == Init /\ [][NextNeighbours]_vars

\* C20: get_similar_customers never returns the customer itself, returns at most top_n rows,
\* by distance ascending, which is similarity descending, every similarity_score within [0, 1]
C20_SimilarCustomers ==
  (last.op = "similar_customers" /\ ~last.raised) =>
    LET rows == last.result
    IN /\ Len(rows) <= last.top_n
       /\ \A i \in 1..Len(rows) :
            /\ rows[i].customer_id # last.customer
            /\ rows[i].similarity_score >= 0
            /\ rows[i].similarity_score <= Scale
       /\ \A i \in 1..(Len(rows) - 1) :
            /\ rows[i].distance <= rows[i + 1].distance
            /\ rows[i].similarity_score >= rows[i + 1].similarity_score

\* two neighbours at different distances have been returned
C20_TwoNeighboursApart ==
  /\ last.op = "similar_customers"
  /\ ~last.raised
  /\ Len(last.result) = 2
  /\ last.result[1].distance < last.result[2].distance
  /\ customer_embeddings[last.customer] # NoEmbedding

Tags(recs) == [i \in 1..Len(recs) |-> recs[i].reason]

\* the call answered from the neighbours' purchases: at least one scored entry
ScoredAnswer ==
  /\ last.op = "cf_among"
  /\ ~last.raised
  /\ \E i \in 1..Len(last.result) : last.result[i].reason = "customers_like_you"

\* C16: when the neighbours yield fewer than top_n scored candidates the list is filled with
\* popularity items tagged 'popular', none of them already in the list or purchased by the
\* customer; the scored items keep their places ahead of the fill; at most top_n entries
C16_Backfill ==
  ScoredAnswer =>
    LET recs == last.result
        Scored == {i \in 1..Len(recs) : recs[i].reason = "customers_like_you"}
        Filled == {i \in 1..Len(recs) : recs[i].reason = "popular"}
    IN /\ Len(recs) <= last.top_n
       /\ Scored \cup Filled = 1..Len(recs)
       /\ \A i \in Scored, j \in Filled : i < j
       /\ \A j \in Filled :
            /\ recs[j].product_id \notin get_customer_purchased_product_ids(last.customer)
            /\ \A i \in 1..Len(recs) : i # j => recs[i].product_id # recs[j].product_id
            /\ purchase_count(recs[j].product_id) > 0
            /\ recs[j].score = purchase_count(recs[j].product_id) * Scale

\* a scored entry is followed by a popularity entry, while a more popular product was kept out
\* because the customer bought it
C16_FilledBehindScored ==
  /\ ScoredAnswer
  /\ \E j \in 1..Len(last.result) : last.result[j].reason = "popular"
  /\ get_customer_purchased_product_ids(last.customer) # {}

\* the neighbours of the last call, as the store ranks them now (a query changes nothing)
LastNeighbourhoods == get_similar_customers_pgvector(last.customer, last.args[1])

\* quantity / (distance + 0.001), in units of 1/Scale
Contribution(c, n, p) ==
  LET q == purchases[n][p].q
      d == Distance(customer_embeddings[c].vec, customer_embeddings[n].vec)
  IN IF q = 0 THEN 0 ELSE q * ((Scale * Scale) \div (d + 1))

\* C17: the score of a recommended product is the sum, over the k nearest neighbours who
\* bought it, of quantity / (distance + 0.001); the products are in descending score order,
\* cut to top_n; of two products bought in equal quantity by one neighbour each, the one of
\* the closer neighbour is not ranked below the other (two scores that 1/Scale cannot tell
\* apart are left out of the comparison)
C17_NeighbourScores ==
  ScoredAnswer =>
    LET recs == last.result
        c == last.customer
        Scored == {i \in 1..Len(recs) : recs[i].reason = "customers_like_you"}
    IN /\ Len(recs) <= last.top_n
       /\ \E similar \in LastNeighbourhoods :
            /\ Len(similar) <= last.args[1]
            /\ \A i \in Scored :
                 /\ recs[i].score = SumOver(Range(similar),
                                            [n \in Customers |-> Contribution(c, n, recs[i].product_id)])
                 /\ recs[i].score > 0
            /\ \A i \in Scored, j \in Scored :
                 (\E n \in Range(similar), m \in Range(similar) :
                    /\ CustomerDistance(c, n) < CustomerDistance(c, m)
                    /\ purchases[n][recs[i].product_id].q = purchases[m][recs[j].product_id].q
                    /\ \A o \in Range(similar) :
                         /\ purchases[o][recs[i].product_id].n > 0 => o = n
                         /\ purchases[o][recs[j].product_id].n > 0 => o = m)
                 => (i < j \/ recs[i].score = recs[j].score)
       /\ \A i \in Scored, j \in Scored : i < j => recs[i].score >= recs[j].score

\* two scored products of two neighbours at different distances, the closer one's first
C17_CloserNeighbourFirst ==
  /\ ScoredAnswer
  /\ Len(last.result) = 2
  /\ last.result[1].reason = "customers_like_you"
  /\ last.result[2].reason = "customers_like_you"
  /\ last.result[1].score > last.result[2].score
  /\ \E n \in Customers, m \in Customers :
       /\ purchases[n][last.result[1].product_id].n > 0
       /\ purchases[m][last.result[2].product_id].n > 0
       /\ customer_embeddings[n] # NoEmbedding
       /\ customer_embeddings[m] # NoEmbedding
       /\ CustomerDistance(last.customer, n) < CustomerDistance(last.customer, m)

\* ------------------------------------------------------- the product neighbourhood
\* get_similar_products: "if similarity_score < 0.1: continue"
similar_product_threshold == Scale \div 10

\* the rows get_similar_products would build without its threshold
SimilarProductRowsUnfiltered(p, similar) ==
  [i \in 1..Len(similar) |->
     Rec(similar[i],
         SimilarityProducts(Distance(product_embeddings[p].vec, product_embeddings[similar[i]].vec)),
         "similar_product")]

\* the rows get_similar_products builds from the neighbours: the threshold, then the products
\* that get_all_products knows
SimilarProductRows(p, similar) ==
  LET Sim(o) == SimilarityProducts(Distance(product_embeddings[p].vec, product_embeddings[o].vec))
      Keep(o) == Sim(o) >= similar_product_threshold /\ o \in catalog
      kept == SelectSeq(similar, Keep)
  IN [i \in 1..Len(kept) |-> Rec(kept[i], Sim(kept[i]), "similar_product")]

\* ContentBasedRecommender.get_similar_products(product_id, top_n); every error gives []
GetSimilarProducts(p, top_n) ==
  /\ IF ~pgvector_enabled \/ product_embeddings[p] = NoEmbedding
     THEN last' = [Call("similar_products", 0, top_n, FALSE, <<>>) EXCEPT !.args = <<p>>]
     ELSE \E similar \in recommend_products_pgvector(product_embeddings[p].vec, {p}, top_n) :
            last' = [Call("similar_products", 0, top_n, FALSE, SimilarProductRows(p, similar))
                       EXCEPT !.args = <<p>>]
  /\ UNCHANGED <<store, engines, weights, cache_vars>>

\* vectors written by hand: two unit vectors 1.9 apart (similarity 0.05)
ProbeVectors ==
  {PadTruncate(<<Scale, 0>>),
   PadTruncate(<<0 - (805 * Scale) \div 1000, (593 * Scale) \div 1000>>)}

ContentOps == {"content", "similar_products"}

\* products are added and bought by one customer, embeddings come from a retrain or are
\* written by hand, and the content recommender is asked for recommendations and for similar
\* products
NextContent ==
  \/ \E p \in Products : AddProduct(p)
  \/ \E p \in Products, quantity \in 1..MaxQty : Purchase(1, p, quantity)
  \/ model_versions < MaxVersions /\ Retrain("none")
  \/ model_versions < MaxVersions /\ LogNewModelVersion
  \/ \E p \in Products, vec \in ProbeVectors, ver \in 1..MaxVersions :
       UpsertProductEmbedding(p, vec, ver)
  \/ last.op \notin ContentOps /\ \E top_n \in TopNs :
       ContentGetRecommendations(1, top_n)
  \/ last.op \notin ContentOps /\ \E p \in Products, top_n \in TopNs :
       GetSimilarProducts(p, top_n)

SpecContent == Init /\ [][NextContent]_vars

\* C19: get_similar_products never returns the product itself, returns only products of
\* similarity at least 0.1, at most top_n of them, in non-increasing score order, each tagged
\* 'similar_product', and nothing for a product without a stored embedding
C19_SimilarProducts ==
  last.op = "similar_products" =>
    LET recs == last.result
        p == last.args[1]
    IN /\ ~last.raised
       /\ Len(recs) <= last.top_n
       /\ \A i \in 1..Len(recs) :
            /\ recs[i].product_id # p
            /\ recs[i].score >= Scale \div 10
            /\ recs[i].reason = "similar_product"
       /\ \A i \in 1..(Len(recs) - 1) : recs[i].score >= recs[i + 1].score
       /\ (pgvector_enabled /\ product_embeddings[p] = NoEmbedding) => recs = <<>>

\* a neighbour below the threshold was left out of a non-empty answer
C19_NeighbourBelowThreshold ==
  /\ last.op = "similar_products"
  /\ last.result # <<>>
  /\ Len(last.result) < last.top_n
  /\ \E o \in Products \ {last.args[1]} :
       /\ product_embeddings[o] # NoEmbedding
       /\ Distance(product_embeddings[last.args[1]].vec, product_embeddings[o].vec)
            > (18 * Scale) \div 10

\* the call answered from the product neighbourhoods: at least one scored entry
ContentAnswer ==
  /\ last.op = "content"
  /\ ~last.raised
  /\ \E i \in 1..Len(last.result) : last.result[i].reason = "content_based"

\* the purchased products of the last call's customer that have a stored embedding
PurchasedWithEmbedding ==
  {pp \in Products : purchases[last.customer][pp].n > 0 /\ product_embeddings[pp] # NoEmbedding}

\* max(0, 1 - distance / 2) between two stored products, counted only from 0.1 upwards
Counted(pp, p) ==
  LET d == Distance(product_embeddings[pp].vec, product_embeddings[p].vec)
      similarity == IF d \div 2 > Scale THEN 0 ELSE Scale - (d \div 2)
  IN IF similarity >= Scale \div 10 THEN similarity ELSE 0

\* C18: the content score of a product is the sum (not the average) of its similarities over
\* the neighbour queries of the purchased products in which it comes with similarity at least
\* min_similarity; a similarity below the threshold adds nothing; the products are sorted by
\* score descending, at most top_n of them, each tagged 'content_based'
C18_ContentScores ==
  ContentAnswer =>
    LET recs == last.result
    IN /\ Len(recs) <= last.top_n
       /\ \A i \in 1..Len(recs) :
            /\ recs[i].reason = "content_based"
            /\ product_embeddings[recs[i].product_id] # NoEmbedding
            /\ recs[i].score = SumOver(PurchasedWithEmbedding,
                                       [pp \in Products |-> Counted(pp, recs[i].product_id)])
            /\ recs[i].score > 0
       /\ \A i \in 1..(Len(recs) - 1) : recs[i].score >= recs[i + 1].score

\* a product has been scored with the similarities of two purchased products added up
C18_TwoSimilaritiesAdded ==
  /\ ContentAnswer
  /\ \E i \in 1..Len(last.result) :
       \E a \in PurchasedWithEmbedding, b \in PurchasedWithEmbedding :
         /\ a # b
         /\ Counted(a, last.result[i].product_id) > 0
         /\ Counted(b, last.result[i].product_id) > 0
         /\ last.result[i].score > Counted(a, last.result[i].product_id)
         /\ last.result[i].score > Counted(b, last.result[i].product_id)

\* ------------------------------------------------------ the Popularity Fallback
\* both recommenders' _get_popular_items(top_n) on one store state, each given the same
\* answer of get_popular_products
GetPopularItems(top_n) ==
  /\ \E popular \in get_popular_products(top_n) :
       last' = [Call("popular_items", 0, top_n, FALSE, <<>>) EXCEPT
                  !.cf = Returned(PopularRows(popular), FALSE),
                  !.content = Returned(ContentPopularRows(popular), FALSE)]
  /\ UNCHANGED <<store, engines, weights, cache_vars>>

\* products are added and bought, the recommenders load at a retrain, and both fallbacks
\* are called
NextPopular ==
  \/ \E p \in Products : AddProduct(p)
  \/ \E c \in ActiveCustomers, p \in Products, quantity \in 1..MaxQty :
       Purchase(c, p, quantity)
  \/ model_versions < MaxVersions /\ Retrain("none")
  \/ \E top_n \in TopNs : GetPopularItems(top_n)

SpecPopular == Init /\ [][NextPopular]_vars

\* recs holds at most n products, by purchase count descending, each scored with its purchase
\* count and tagged 'popular'
RankedByPurchaseCount(recs, n) ==
  /\ Len(recs) <= n
  /\ \A i \in 1..Len(recs) :
       /\ recs[i].score = Scale * SumOver(Customers,
                                          [c \in Customers |-> purchases[c][recs[i].product_id].n])
       /\ recs[i].score > 0
       /\ recs[i].reason = "popular"
  /\ \A i \in 1..(Len(recs) - 1) : recs[i].score >= recs[i + 1].score

\* C21: the Popularity Fallback of each recommender returns at most top_n products ranked by
\* purchase count descending, each with its purchase count as score and the tag 'popular'
C21_PopularityFallback ==
  last.op = "popular_items" =>
    /\ RankedByPurchaseCount(last.cf.recs, last.top_n)
    /\ RankedByPurchaseCount(last.content.recs, last.top_n)

\* both fallbacks have returned the most purchased product and left a less purchased one out
C21_RankedAndCut ==
  /\ last.op = "popular_items"
  /\ Len(last.cf.recs) = last.top_n
  /\ Len(last.content.recs) = last.top_n
  /\ \E p \in Products \ Ids(last.cf.recs) :
       /\ purchase_count(p) > 0
       /\ \A i \in 1..Len(last.cf.recs) : purchase_count(p) * Scale < last.cf.recs[i].score

\* C27: on one store state and for one top_n the two recommenders' Popularity Fallbacks return
\* the same products in the same order with the same scores, whatever either recommender has
\* loaded
C27_OneSharedFallback ==
  last.op = "popular_items" => last.cf.recs = last.content.recs

\* ------------------------------------------------- the combiner over any two lists
\* the longest list a stubbed sub-recommender returns
MaxListLen == 2

\* the scores a stubbed sub-recommender gives: 0.8 and 0.9
StubScores == {(8 * Scale) \div 10, (9 * Scale) \div 10}

StubEntries == {Rec(p, score, "stub") : p \in Products, score \in StubScores}

\* the lists of at most MaxListLen entries
StubLists == UNION {[1..n -> StubEntries] : n \in 0..MaxListLen}

\* HybridRecommender.get_recommendations(customer, top_n) over two stubbed sub-recommenders
\* that return cf_recs and content_recs
MergeLists(cf_recs, content_recs, top_n) ==
  /\ last' = [Call("merge", 0, top_n, FALSE, HybridMerge(cf_recs, content_recs, top_n)) EXCEPT
                !.cf = Returned(cf_recs, FALSE), !.content = Returned(content_recs, FALSE)]
  /\ UNCHANGED <<store, engines, weights, cache_vars>>

\* the weights are set and two lists are merged; a merge writes nothing, so one never has to
\* follow another
NextMerge ==
  \/ \E w \in WeightInputs : SetWeights(w[1], w[2])
  \/ last.op # "merge" /\ \E cf_recs \in StubLists, content_recs \in StubLists, top_n \in TopNs :
       MergeLists(cf_recs, content_recs, top_n)

SpecMerge == Init /\ [][NextMerge]_vars

\* the number of distinct product ids of the two lists of the last call
DistinctListed == Cardinality(Ids(last.cf.recs) \cup Ids(last.content.recs))

\* C22: whatever the two sub-recommenders return, the hybrid returns min(top_n, number of
\* distinct product ids in the two lists) entries, each product id at most once, in
\* non-increasing combined-score order, every entry with product_id, score and reason 'hybrid'
C22_HybridList ==
  last.op = "merge" =>
    LET recs == last.result
    IN /\ ~last.raised
       /\ Len(recs) = Min(last.top_n, DistinctListed)
       /\ \A i \in 1..Len(recs) :
            /\ DOMAIN recs[i] = {"product_id", "score", "reason"}
            /\ recs[i].product_id \in Ids(last.cf.recs) \cup Ids(last.content.recs)
            /\ recs[i].reason = "hybrid"
       /\ \A i, j \in 1..Len(recs) : i # j => recs[i].product_id # recs[j].product_id
       /\ \A i \in 1..(Len(recs) - 1) : recs[i].score >= recs[i + 1].score

\* two overlapping lists with more distinct products than top_n have been merged
C22_OverlapAndCut ==
  /\ last.op = "merge"
  /\ Ids(last.cf.recs) \cap Ids(last.content.recs) # {}
  /\ DistinctListed > last.top_n
  /\ Len(last.result) = last.top_n
  /\ last.top_n > 1

\* ------------------------------------------------------- the weights of the combiner
\* the grid of weights a caller passes: 0, 1/WeightSteps, ..., 1
WeightSteps == 4

WeightGrid ==
  {<<(i * WeightScale) \div WeightSteps, (j * WeightScale) \div WeightSteps>> :
     i \in 0..WeightSteps, j \in 0..WeightSteps} \cup WeightInputs

\* HybridRecommender.__init__(cf, content, cf_weight, content_weight): weights that do not sum
\* to 1.0 are logged with a warning and stored
Construct(cf, content) ==
  /\ cf_weight' = cf
  /\ content_weight' = content
  /\ last' = [Call("construct", 0, 0, FALSE, <<>>) EXCEPT !.args = <<cf, content>>]
  /\ UNCHANGED <<store, engines, cache_vars>>

NextWeights ==
  \/ \E w \in WeightGrid : Construct(w[1], w[2])
  \/ \E w \in WeightGrid : SetWeights(w[1], w[2])

SpecWeights == Init /\ [][NextWeights]_vars

\* C29: in every state of a HybridRecommender, from its construction through any accepted and
\* rejected set_weights calls, |cf_weight + content_weight - 1.0| <= 0.01
C29_WeightsSumToOne ==
  Abs(cf_weight + content_weight - WeightScale) <= weight_tolerance

\* ------------------------------------------------------------ retraining again
\* products are added and bought, the models are retrained once more than MaxVersions, and
\* the recommenders are queried; a query writes nothing, so a retrain after a query ends
\* where a retrain before it ends
NextRerun ==
  \/ \E p \in Products : AddProduct(p)
  \/ \E c \in ActiveCustomers, p \in Products, quantity \in 1..MaxQty :
       Purchase(c, p, quantity)
  \/ last.op \notin QueryOps /\ model_versions <= MaxVersions /\ Retrain("none")
  \/ last.op \notin QueryOps /\ \E c \in ActiveCustomers, top_n \in TopNs :
       CFGetRecommendations(c, top_n)
  \/ last.op \notin QueryOps /\ \E c \in ActiveCustomers, top_n \in TopNs :
       ContentGetRecommendations(c, top_n)

SpecRerun == Init /\ [][NextRerun]_vars

\* the last retrain succeeded and neither purchases nor products have changed since
TrainedOnCurrentData ==
  /\ pgvector_enabled
  /\ model_versions > 0
  /\ cf_version = model_versions
  /\ content_version = model_versions
  /\ user_item_matrix = get_purchase_matrix
  /\ product_features = [loaded |-> TRUE, ids |-> catalog]

IdSeq(recs) == [i \in 1..Len(recs) |-> recs[i].product_id]

\* the ranked product ids each query can return in the current state (several where scores tie)
Rankings ==
  [c \in ActiveCustomers |-> [top_n \in TopNs |->
     [cf |-> {<<o.raised, IdSeq(o.recs)>> : o \in CFOutcomes(c, top_n, k_similar_customers)},
      content |-> {<<o.raised, IdSeq(o.recs)>> : o \in ContentOutcomes(c, top_n)}]]]

is_ready == user_item_matrix # NoMatrix /\ cf_version # NoVersion

\* RecommendationEngine.load_data; fault: get_purchase_matrix raises
CFLoadData(fault) ==
  /\ IF fault \/ NoPurchaseData(get_purchase_matrix)
     THEN /\ last' = Call("load_data", 0, 0, TRUE, <<>>)
          /\ UNCHANGED user_item_matrix
     ELSE /\ last' = Call("load_data", 0, 0, FALSE, <<>>)
          /\ user_item_matrix' = get_purchase_matrix
  /\ UNCHANGED <<store, cf_version, product_features, content_version, weights, cache_vars>>

\* RecommendationEngine.compute_similarity(model_version_id); fault: the batch upsert raises
\* and rolls back
CFComputeSimilarity(ver, fault) ==
  /\ ver \in 1..model_versions
  /\ IF user_item_matrix = NoMatrix \/ ~pgvector_enabled \/ fault
     THEN /\ last' = [Call("compute_similarity", 0, 0, TRUE, <<>>) EXCEPT !.version = ver]
          /\ UNCHANGED <<customer_embeddings, cf_version>>
     ELSE /\ last' = [Call("compute_similarity", 0, 0, FALSE, <<>>) EXCEPT !.version = ver]
          /\ customer_embeddings' =
               BatchUpsert(customer_embeddings, MatrixCustomers(user_item_matrix),
                           [c \in Customers |-> PurchaseVector(c, user_item_matrix)], ver)
          /\ cf_version' = ver
  /\ UNCHANGED <<pgvector_enabled, catalog, purchases, model_versions, product_embeddings,
                 user_item_matrix, product_features, content_version, weights, cache_vars>>

\* products are added and bought, a version is logged, and the collaborative recommender is
\* loaded, computed and queried, each call on its own
NextLifecycle ==
  \/ \E p \in Products : AddProduct(p)
  \/ \E c \in ActiveCustomers, p \in Products, quantity \in 1..MaxQty :
       Purchase(c, p, quantity)
  \/ model_versions < MaxVersions /\ LogNewModelVersion
  \/ \E fault \in BOOLEAN : CFLoadData(fault)
  \/ \E ver \in 1..MaxVersions, fault \in BOOLEAN : CFComputeSimilarity(ver, fault)
  \/ last.op \notin QueryOps /\ \E c \in ActiveCustomers, top_n \in TopNs :
       CFGetRecommendations(c, top_n)

SpecLifecycle == Init /\ [][NextLifecycle]_vars

\* compute_similarity on an unloaded recommender raises and writes no embedding
C24_ComputeNeedsLoad ==
  [][(last'.op = "compute_similarity" /\ user_item_matrix = NoMatrix)
       => /\ last'.raised
          /\ UNCHANGED customer_embeddings]_vars

\* is_ready changes only to true, and only by a compute_similarity that succeeds on loaded data
C24_ReadyByCompute ==
  [][(is_ready' # is_ready)
       => /\ is_ready'
          /\ last'.op = "compute_similarity"
          /\ ~last'.raised
          /\ user_item_matrix # NoMatrix]_vars

\* a failed load_data or compute_similarity leaves the recommender and its embeddings alone
C24_FailureKeepsState ==
  [][(last'.op \in {"load_data", "compute_similarity"} /\ last'.raised)
       => UNCHANGED <<cf_version, user_item_matrix, customer_embeddings>>]_vars

\* C24: the collaborative recommender goes Unloaded -> Loaded -> EmbeddingsPersisted -> Ready:
\* compute_similarity before a successful load_data raises and writes no embedding; is_ready
\* becomes true only by a compute_similarity that succeeds on loaded data and never becomes
\* false again; a failed load_data or compute_similarity leaves the version id and is_ready as
\* they were; get_recommendations is served only when is_ready
C24_LifeCycle ==
  /\ C24_ComputeNeedsLoad
  /\ C24_ReadyByCompute
  /\ C24_FailureKeepsState
  /\ [](last.op = "cf" /\ ~last.raised /\ last.result # <<>> => is_ready)

\* ------------------------------------------------- the order of a retrain's writes
\* the vector the Content Aggregation Embedder produces for customer c from the stored product
\* embeddings
ContentAggregated(c) == GenerateCustomerEmbedding(c, product_embeddings, TRUE)

\* customer c bought a product that has a stored embedding
BoughtEmbeddedProduct(c) ==
  \E p \in get_customer_purchased_product_ids(c) : product_embeddings[p] # NoEmbedding

NextSupersede ==
  \/ \E p \in Products : AddProduct(p)
  \/ \E c \in ActiveCustomers, p \in Products, quantity \in 1..MaxQty :
       Purchase(c, p, quantity)
  \/ \E c \in Customers \ ActiveCustomers, vec \in SeedVectors, ver \in 1..MaxVersions :
       customer_embeddings[c] = NoEmbedding /\ UpsertCustomerEmbedding(c, vec, ver)
  \/ \E fault \in RetrainFaults : model_versions <= MaxVersions /\ Retrain(fault)

SpecSupersede == Init /\ [][NextSupersede]_vars

\* the stored rows of a table that carry version ver
StampedWith(table, ver) == {x \in DOMAIN table : table[x] # NoEmbedding /\ table[x].ver = ver}

\* the stored rows of a table
Stored(table) == {x \in DOMAIN table : table[x] # NoEmbedding}

\* C26: after a successful retrain every stored product embedding and every stored customer
\* embedding carries that retrain's model version id, and the rows stamped with it are as many
\* as the embedders wrote: one per product, one per customer with a purchase
C26_RetrainSupersedes ==
  (last.op = "retrain" /\ ~last.raised) =>
    /\ Stored(product_embeddings) = StampedWith(product_embeddings, last.version)
    /\ Stored(customer_embeddings) = StampedWith(customer_embeddings, last.version)
    /\ Cardinality(StampedWith(product_embeddings, last.version)) = Cardinality(catalog)
    /\ Cardinality(StampedWith(customer_embeddings, last.version))
         = Cardinality(get_all_customers_with_purchases)

\* the same statement where every stored customer row belongs to a customer with a purchase
C26_SupersedesTrainedRows ==
  (/\ last.op = "retrain"
   /\ ~last.raised
   /\ Stored(customer_embeddings) \subseteq get_all_customers_with_purchases)
    => C26_RetrainSupersedes

\* a retrain has succeeded on a store that already held an earlier version's rows, all of them
\* rows of customers with a purchase
C26_SecondRetrainSucceeded ==
  /\ last.op = "retrain"
  /\ ~last.raised
  /\ last.version = MaxVersions + 1
  /\ Stored(customer_embeddings) \subseteq get_all_customers_with_purchases
  /\ Stored(customer_embeddings) # {}

\* ------------------------------------------------------ the length of a backfilled list
\* the products someone bought and customer c did not
EligibleProducts(c) ==
  {p \in catalog : purchase_count(p) > 0 /\ p \notin get_customer_purchased_product_ids(c)}

\* customer c has a stored embedding and some other customer has one too
HasNeighbour(c) ==
  /\ customer_embeddings[c] # NoEmbedding
  /\ \E o \in Customers \ {c} : customer_embeddings[o] # NoEmbedding

\* C28: for a customer with a stored embedding and at least one neighbour, get_recommendations
\* returns exactly top_n entries whenever at least top_n products exist that someone bought and
\* the customer did not
C28_BackfillFillsUp ==
  (/\ last.op = "cf_among"
   /\ ~last.raised
   /\ HasNeighbour(last.customer)
   /\ Cardinality(EligibleProducts(last.customer)) >= last.top_n)
    => Len(last.result) = last.top_n

\* --------------------------------------------------- the handlers and the cache
\* the cache holds a non-empty answer for the request (c, strategy, limit)
Cached(c, strategy, limit) ==
  \E e \in cache : e.key = CacheKey(c, strategy, limit) /\ e.value # <<>>

\* a request computed by the recommender leaves its answer in the cache
C30_ComputedIsStored ==
  (/\ last.op = "recommendations"
   /\ ~last.raised
   /\ cache_client
   /\ ~last.args[2]
   /\ last.result # <<>>)
    => Cached(last.customer, last.args[1], last.top_n)

\* a request whose answer is in the cache is answered from the cache
C30_StoredIsServed ==
  [][(/\ last'.op = "recommendations"
      /\ cache_client
      /\ Cached(last'.customer, last'.args[1], last'.top_n))
       => last'.args[2]]_vars

\* a successful retrain leaves no cached recommendation
C30_RetrainEmptiesCache ==
  [][(last'.op = "retrain" /\ ~last'.raised /\ cache_client) => cache' = {}]_vars

\* C30: after a startup in which the cache connection succeeded the handlers use the cache: a
\* computed recommendation is stored under (customer, strategy, limit), a request whose answer is
\* stored is answered from the cache, and a successful retrain deletes every cached
\* recommendation
C30_HandlersUseCache ==
  /\ []C30_ComputedIsStored
  /\ C30_StoredIsServed
  /\ C30_RetrainEmptiesCache

====
